---- MODULE Spec2Model ----
(***************************************************************************)
(* Model of TransitionMatrixLearner                                        *)
(* (Risco_de_Credito/transition_matrix_estimator.py).                      *)
(*                                                                         *)
(* Matrices are functions over 0-based index ranges, as in numpy.  Counts  *)
(* are naturals; the entries of a cleaned matrix are exact rationals       *)
(* <<numerator, denominator>> in lowest terms.                             *)
(***************************************************************************)
EXTENDS Integers, Sequences, FiniteSets, TLC

VARIABLES
    \* fields of the estimator
    buckets, alpha, auto_rebin, drop_empty, min_count, rebin_window,
    cleaned_buckets, mat_global, mat_by_gh, mat_by_stage,
    \* the calls made on the estimator: the panel and group_col given to the
    \* last fit and its local counts_global, the number of fits, the outcome
    \* of the last call
    panel, group_col, counts_global, nfits, result,
    \* one pass of _clean_matrix: its position, its argument, its locals and
    \* the events it logged
    pc, raw, mat, row_sums, non_empty, idx, final, log

estimator == <<buckets, alpha, auto_rebin, drop_empty, min_count, rebin_window,
               cleaned_buckets, mat_global, mat_by_gh, mat_by_stage>>
calls == <<panel, group_col, counts_global, nfits, result>>
pass == <<pc, raw, mat, row_sums, non_empty, idx, final, log>>
vars == <<estimator, calls, pass>>

(***************************************************************************)
(* Bounds of the model.                                                    *)
(***************************************************************************)
MaxPairs == 5          \* transition pairs counted into one raw count matrix
MaxAlpha == 1          \* alpha ranges over 0..MaxAlpha
MaxMinCount == 3       \* min_count ranges over 0..MaxMinCount
MaxFits == 2           \* fit calls on one estimator
MaxEntities == 1       \* entities of a panel (the scenario panel has two)

\* defaults of __init__
DefaultAlpha == 1
DefaultRebinWindow == 7

\* The bucket lists given to the constructor (one of them unsorted).
BucketInputs == {<<0, 30, 60>>, <<60, 30>>}
\* The rebin_window values given to the constructor (7 is the default).
RebinWindows == {DefaultRebinWindow, 30}

\* Python's None, and a value that is not None
None == <<>>
Some(x) == <<x>>

(***************************************************************************)
(* Arithmetic helpers.                                                     *)
(***************************************************************************)
Range0(n) == 0 .. (n - 1)

Abs(x) == IF x < 0 THEN -x ELSE x

RECURSIVE GCD(_, _)
GCD(a, b) == IF b = 0 THEN a ELSE GCD(b, a % b)

\* the rational n/d (d > 0) in lowest terms
Rat(n, d) == LET g == GCD(n, d) IN <<n \div g, d \div g>>
RatZero == <<0, 1>>
RatOne == <<1, 1>>
RatAdd(p, q) == Rat(p[1] * q[2] + q[1] * p[2], p[2] * q[2])

RECURSIVE SumOver(_, _)
SumOver(f, S) ==
    IF S = {} THEN 0
    ELSE LET x == CHOOSE y \in S : TRUE IN f[x] + SumOver(f, S \ {x})

RECURSIVE RatSumOver(_, _)
RatSumOver(f, S) ==
    IF S = {} THEN RatZero
    ELSE LET x == CHOOSE y \in S : TRUE IN RatAdd(f[x], RatSumOver(f, S \ {x}))

\* mat[i].sum(), mat.sum(axis=1), mat.sum()
RowSum(m, i) == SumOver(m[i], DOMAIN m[i])
RowSums(m) == [i \in DOMAIN m |-> RowSum(m, i)]
Total(m) == SumOver(RowSums(m), DOMAIN m)

\* np.zeros((n, n))
Zeros(n) == [i \in Range0(n) |-> [j \in Range0(n) |-> 0]]

(***************************************************************************)
(* __init__: sorted(buckets), as a 0-based array.                          *)
(***************************************************************************)
RECURSIVE Insert(_, _)
Insert(x, s) ==
    IF s = <<>> THEN <<x>>
    ELSE IF x <= Head(s) THEN <<x>> \o s
    ELSE <<Head(s)>> \o Insert(x, Tail(s))

RECURSIVE Sorted(_)
Sorted(s) == IF s = <<>> THEN <<>> ELSE Insert(Head(s), Sorted(Tail(s)))

ZeroBased(s) == [k \in Range0(Len(s)) |-> s[k + 1]]

n == Cardinality(DOMAIN buckets)

(***************************************************************************)
(* _clean_matrix.                                                          *)
(***************************************************************************)
\* mat[j] += mat[i]
AddRow(m, j, i) == [m EXCEPT ![j] = [k \in DOMAIN m[j] |-> m[j][k] + m[i][k]]]
\* mat[:, j] += mat[:, i]
AddCol(m, j, i) == [r \in DOMAIN m |-> [m[r] EXCEPT ![j] = m[r][j] + m[r][i]]]
\* mat[i] = 0
ZeroRow(m, i) == [m EXCEPT ![i] = [k \in DOMAIN m[i] |-> 0]]
\* mat[:, i] = 0
ZeroCol(m, i) == [r \in DOMAIN m |-> [m[r] EXCEPT ![i] = 0]]

MergeNoColumnMove(m, i, j) == ZeroCol(ZeroRow(AddRow(m, j, i), i), i)

\* the four in-place updates of a merge of row/column i into j, in order
Merge(m, i, j) == ZeroCol(ZeroRow(AddCol(AddRow(m, j, i), j, i), i), i)

\* non_empty = [i for i, s in enumerate(row_sums) if s >= self.min_count]
NonEmpty(rs) == {i \in DOMAIN rs : rs[i] >= min_count}

Dist(x, i) == Abs(buckets[x] - buckets[i])

\* candidates: the non-empty rows within the window, else all of them
Candidates(ne, i) ==
    LET near == {x \in ne : Dist(x, i) <= rebin_window}
    IN IF near = {} THEN ne ELSE near

DonorFarthest(ne, i) ==
    LET c == Candidates(ne, i)
        best == {x \in c : \A y \in c : Dist(x, i) >= Dist(y, i)}
    IN CHOOSE x \in best : \A y \in best : x <= y

\* min(candidates, key=distance): the first row of minimal distance
Donor(ne, i) ==
    LET c == Candidates(ne, i)
        best == {x \in c : \A y \in c : Dist(x, i) <= Dist(y, i)}
    IN CHOOSE x \in best : \A y \in best : x <= y

\* One iteration of the loop `for i, s in enumerate(row_sums)` on the locals
\* st = [mat, row_sums, log]; non_empty is the list computed before the loop.
RebinIter(st, ne, i) ==
    LET s == st.row_sums[i]
    IN IF s < min_count /\ ne # {}
       THEN LET j == Donor(ne, i)
            IN [mat |-> Merge(st.mat, i, j),
                row_sums |-> [st.row_sums EXCEPT ![j] = @ + s, ![i] = 0],
                log |-> Append(st.log,
                               [kind |-> "rebin", bucket |-> buckets[i],
                                into |-> buckets[j], count |-> s])]
       ELSE st

RECURSIVE RebinLoop(_, _, _)
RebinLoop(st, ne, i) ==
    IF i >= Cardinality(DOMAIN st.row_sums) THEN st
    ELSE RebinLoop(RebinIter(st, ne, i), ne, i + 1)

\* keep = [s >= self.min_count for s in row_sums]
Keep(rs) == [i \in DOMAIN rs |-> rs[i] >= min_count]

\* the indices a boolean mask selects, in order, as a 0-based array
RECURSIVE KeptFrom(_, _)
KeptFrom(keep, i) ==
    IF i >= Cardinality(DOMAIN keep) THEN <<>>
    ELSE (IF keep[i] THEN <<i>> ELSE <<>>) \o KeptFrom(keep, i + 1)

Kept(keep) == ZeroBased(KeptFrom(keep, 0))

\* mat[np.ix_(keep, keep)]
Ix(m, keep) ==
    LET k == Kept(keep)
    IN [a \in DOMAIN k |-> [b \in DOMAIN k |-> m[k[a]][k[b]]]]

\* the "Dropped bucket" events, in bucket order
RECURSIVE DropLog(_, _, _)
DropLog(keep, rs, i) ==
    IF i >= Cardinality(DOMAIN keep) THEN <<>>
    ELSE (IF keep[i] THEN <<>>
          ELSE <<[kind |-> "drop", bucket |-> buckets[i], count |-> rs[i]]>>)
         \o DropLog(keep, rs, i + 1)

\* [b for b, k in zip(self.buckets, keep) if k]
KeptBuckets(keep) == LET k == Kept(keep) IN [a \in DOMAIN k |-> buckets[k[a]]]

LaplaceRawDenominator(m) ==
    [i \in DOMAIN m |->
        IF RowSum(m, i) > 0
        THEN [j \in DOMAIN m[i] |-> Rat(m[i][j] + alpha, RowSum(m, i))]
        ELSE [j \in DOMAIN m[i] |-> RatZero]]

\* final[i] = (mat[i] + alpha) / (mat[i] + alpha).sum() for the rows with
\* mat[i].sum() > 0; the other rows stay zero
Laplace(m) ==
    [i \in DOMAIN m |->
        IF RowSum(m, i) > 0
        THEN LET tot == SumOver([j \in DOMAIN m[i] |-> m[i][j] + alpha], DOMAIN m[i])
             IN [j \in DOMAIN m[i] |-> Rat(m[i][j] + alpha, tot)]
        ELSE [j \in DOMAIN m[i] |-> RatZero]]

\* The strategy step of _clean_matrix on a count matrix m: the matrix that is
\* smoothed, the value left in self.cleaned_buckets, the events logged.
Strategy(m) ==
    LET rs == RowSums(m)
    IN IF auto_rebin
       THEN LET st == RebinLoop([mat |-> m, row_sums |-> rs, log |-> <<>>],
                                NonEmpty(rs), 0)
            IN [mat |-> st.mat, cleaned_buckets |-> buckets, log |-> st.log]
       ELSE IF drop_empty
       THEN [mat |-> Ix(m, Keep(rs)), cleaned_buckets |-> KeptBuckets(Keep(rs)),
             log |-> DropLog(Keep(rs), rs, 0)]
       ELSE [mat |-> m, cleaned_buckets |-> buckets, log |-> <<>>]

\* _clean_matrix(mat): the matrix returned and the value of
\* self.cleaned_buckets when it returns
CleanMatrix(m) ==
    LET s == Strategy(m)
    IN [final |-> Laplace(s.mat), cleaned_buckets |-> s.cleaned_buckets]

(***************************************************************************)
(* The estimator after __init__.                                           *)
(***************************************************************************)
InitEstimator ==
    /\ \E b \in BucketInputs : buckets = ZeroBased(Sorted(b))
    /\ alpha \in 0 .. MaxAlpha
    /\ auto_rebin \in BOOLEAN
    /\ drop_empty \in BOOLEAN
    /\ ~(auto_rebin /\ drop_empty)
    /\ min_count \in 0 .. MaxMinCount
    /\ rebin_window \in RebinWindows
    /\ cleaned_buckets = buckets
    /\ mat_global = None
    /\ mat_by_gh = <<>>
    /\ mat_by_stage = <<>>

InitCalls ==
    /\ panel = {}
    /\ group_col = None
    /\ counts_global = None
    /\ nfits = 0
    /\ result = [call |-> "__init__", outcome |-> [kind |-> "self"]]

(***************************************************************************)
(* One pass of _clean_matrix on a count matrix, statement by statement.    *)
(***************************************************************************)
\* mat[i, j] += 1
Increment(m, i, j) == [m EXCEPT ![i][j] = @ + 1]

\* the count matrices of at most k transition pairs
RECURSIVE CountsOf(_)
CountsOf(k) ==
    IF k = 0 THEN {Zeros(n)}
    ELSE LET less == CountsOf(k - 1)
         IN less \cup {Increment(m, i, j) : m \in less, i \in Range0(n), j \in Range0(n)}

CountMatrices == CountsOf(MaxPairs)

InitPass ==
    /\ pc = "start"
    /\ raw \in CountMatrices
    /\ mat = raw
    /\ row_sums = <<>>
    /\ non_empty = {}
    /\ idx = 0
    /\ final = <<>>
    /\ log = <<>>

\* row_sums = mat.sum(axis=1), and the branch on the strategy
CleanStart ==
    /\ pc = "start"
    /\ row_sums' = RowSums(mat)
    /\ IF auto_rebin
       THEN /\ non_empty' = NonEmpty(RowSums(mat))
            /\ idx' = 0
            /\ pc' = "rebin"
            /\ UNCHANGED <<mat, cleaned_buckets, log>>
       ELSE IF drop_empty
       THEN /\ mat' = Ix(mat, Keep(RowSums(mat)))
            /\ cleaned_buckets' = KeptBuckets(Keep(RowSums(mat)))
            /\ log' = DropLog(Keep(RowSums(mat)), RowSums(mat), 0)
            /\ pc' = "smooth"
            /\ UNCHANGED <<non_empty, idx>>
       ELSE /\ cleaned_buckets' = buckets
            /\ pc' = "smooth"
            /\ UNCHANGED <<mat, non_empty, idx, log>>
    /\ UNCHANGED <<buckets, alpha, auto_rebin, drop_empty, min_count, rebin_window,
                   mat_global, mat_by_gh, mat_by_stage, calls, raw, final>>

\* one iteration of the rebin loop
RebinStep ==
    /\ pc = "rebin"
    /\ idx < n
    /\ LET st == RebinIter([mat |-> mat, row_sums |-> row_sums, log |-> log],
                           non_empty, idx)
       IN /\ mat' = st.mat
          /\ row_sums' = st.row_sums
          /\ log' = st.log
    /\ idx' = idx + 1
    /\ UNCHANGED <<estimator, calls, pc, raw, non_empty, final>>

\* the loop is over: self.cleaned_buckets = self.buckets.copy()
RebinEnd ==
    /\ pc = "rebin"
    /\ idx >= n
    /\ cleaned_buckets' = buckets
    /\ pc' = "smooth"
    /\ UNCHANGED <<buckets, alpha, auto_rebin, drop_empty, min_count, rebin_window,
                   mat_global, mat_by_gh, mat_by_stage, calls,
                   raw, mat, row_sums, non_empty, idx, final, log>>

\* "apply Laplace only to non-empty rows", and return
Smooth ==
    /\ pc = "smooth"
    /\ final' = Laplace(mat)
    /\ pc' = "done"
    /\ UNCHANGED <<estimator, calls, raw, mat, row_sums, non_empty, idx, log>>

NextClean == CleanStart \/ RebinStep \/ RebinEnd \/ Smooth

InitClean == InitEstimator /\ InitCalls /\ InitPass

SpecClean == InitClean /\ [][NextClean]_vars

\* The pass, run statement by statement, returns what CleanMatrix computes.
PassIsCleanMatrix ==
    pc = "done" =>
        /\ final = CleanMatrix(raw).final
        /\ cleaned_buckets = CleanMatrix(raw).cleaned_buckets
        /\ mat = Strategy(raw).mat
        /\ log = Strategy(raw).log

(***************************************************************************)
(* fit.                                                                    *)
(***************************************************************************)
\* A timestamp is <<month, day>> of one (non-leap) year.
DaysIn(month) == IF month = 2 THEN 28 ELSE IF month \in {4, 6, 9, 11} THEN 30 ELSE 31

\* t + pd.DateOffset(months=1): the same day of the next month, or the last
\* day of that month when it is shorter
AddMonth(t) ==
    <<t[1] + 1, IF t[2] > DaysIn(t[1] + 1) THEN DaysIn(t[1] + 1) ELSE t[2]>>

\* panel.merge(shifted, on=[id_col, time_col], suffixes=("_t", "_t1")): the
\* left row is the panel's, the right row the shifted copy's
Merged(p) ==
    {[id |-> l.id, time |-> l.time,
      bucket_t |-> l.bucket, bucket_t1 |-> r.bucket,
      gh_t |-> l.gh, gh_t1 |-> r.gh] :
        <<l, r>> \in {x \in p \X p : x[1].id = x[2].id /\ x[1].time = AddMonth(x[2].time)}}

\* np.searchsorted(self.buckets, v, side="right"): the thresholds <= v
SearchSortedRight(v) == Cardinality({k \in DOMAIN buckets : buckets[k] <= v})

\* numpy's indexing of an axis of length len: a negative index counts from
\* the end
PyIndex(i, len) == IF i < 0 THEN i + len ELSE i

\* the row or column _count_matrix increments for a value
Cell(v) == PyIndex(SearchSortedRight(v) - 1, n)

\* _count_matrix(rows[bucket_col + "_t"], rows[bucket_col + "_t1"])
CountMatrix(rows) ==
    [i \in Range0(n) |-> [j \in Range0(n) |->
        Cardinality({r \in rows : Cell(r.bucket_t) = i /\ Cell(r.bucket_t1) = j})]]

\* merged.groupby(group_col + "_t") and merged.groupby(bucket_col + "_t")
GroupKeys(rows) == {r.gh_t : r \in rows}
StageKeys(rows) == {r.bucket_t : r \in rows}
GroupRows(rows, gh) == {r \in rows : r.gh_t = gh}
StageRows(rows, stage) == {r \in rows : r.bucket_t = stage}

Max(S) == CHOOSE x \in S : \A y \in S : y <= x

\* self.cleaned_buckets when fit returns: what the last _clean_matrix call
\* (the last stage's, the groupby being in key order) left there
CleanedBucketsAfterFit(rows) ==
    IF StageKeys(rows) = {}
    THEN CleanMatrix(CountMatrix(rows)).cleaned_buckets
    ELSE CleanMatrix(CountMatrix(StageRows(rows, Max(StageKeys(rows))))).cleaned_buckets

\* self._mat_by_gh after the loop over merged.groupby(group_col + "_t"),
\* which is skipped when group_col is None
FitByGh(prior, merged, gc) ==
    IF gc # None
    THEN [gh \in DOMAIN prior \cup GroupKeys(merged) |->
             IF gh \in GroupKeys(merged)
             THEN CleanMatrix(CountMatrix(GroupRows(merged, gh))).final
             ELSE prior[gh]]
    ELSE prior

\* self._mat_by_stage after the loop over merged.groupby(bucket_col + "_t")
FitByStage(prior, merged) ==
    [stage \in DOMAIN prior \cup StageKeys(merged) |->
        IF stage \in StageKeys(merged)
        THEN CleanMatrix(CountMatrix(StageRows(merged, stage))).final
        ELSE prior[stage]]

Fit(p, gc) ==
    /\ nfits < MaxFits
    /\ LET merged == Merged(p)
       IN /\ counts_global' = Some(CountMatrix(merged))
          /\ mat_global' = Some(CleanMatrix(CountMatrix(merged)).final)
          /\ mat_by_gh' = FitByGh(mat_by_gh, merged, gc)
          /\ mat_by_stage' = FitByStage(mat_by_stage, merged)
          /\ cleaned_buckets' = CleanedBucketsAfterFit(merged)
    /\ panel' = p
    /\ group_col' = gc
    /\ nfits' = nfits + 1
    /\ result' = [call |-> "fit", outcome |-> [kind |-> "self"]]
    /\ UNCHANGED <<buckets, alpha, auto_rebin, drop_empty, min_count, rebin_window, pass>>

(***************************************************************************)
(* get_matrix.                                                             *)
(***************************************************************************)
get_matrix(gh, stage) ==
    IF gh = None /\ stage = None
    THEN IF mat_global = None
         THEN [kind |-> "RuntimeError"]
         ELSE [kind |-> "matrix", value |-> mat_global[1]]
    ELSE IF gh # None
    THEN IF gh[1] \in DOMAIN mat_by_gh
         THEN [kind |-> "matrix", value |-> mat_by_gh[gh[1]]]
         ELSE [kind |-> "KeyError"]
    ELSE IF stage # None
    THEN IF stage[1] \in DOMAIN mat_by_stage
         THEN [kind |-> "matrix", value |-> mat_by_stage[stage[1]]]
         ELSE [kind |-> "KeyError"]
    ELSE [kind |-> "ValueError"]

GetMatrix(gh, stage) ==
    /\ result' = [call |-> "get_matrix", gh |-> gh, stage |-> stage,
                  outcome |-> get_matrix(gh, stage)]
    /\ UNCHANGED <<estimator, panel, group_col, counts_global, nfits, pass>>

(***************************************************************************)
(* The callers' inputs.                                                    *)
(***************************************************************************)
\* month-end January, then the 28th of February and of March
Times == {<<1, 31>>, <<2, 28>>, <<3, 28>>}
\* bucket values: thresholds and a value inside an interval
Values == {0, 30, 45}
\* the homogeneous group of an entity
GroupOf(id) == IF id = 1 THEN "A" ELSE "B"

Row(id, t, v) == [id |-> id, time |-> t, bucket |-> v, gh |-> GroupOf(id)]

\* the spec's scenario: two entities observed for three consecutive months
\* with bucket sequences [0,30,30] and [0,0,60]
ScenarioPanel ==
    {Row(1, <<1, 31>>, 0), Row(1, <<2, 28>>, 30), Row(1, <<3, 28>>, 30),
     Row(2, <<1, 31>>, 0), Row(2, <<2, 28>>, 0), Row(2, <<3, 28>>, 60)}

\* the rows of one entity: at most one per period
EntityRows(id) ==
    {rows \in SUBSET {Row(id, t, v) : t \in Times, v \in Values} :
        \A a, b \in rows : a.time = b.time => a = b}

\* the panels of the entities 1..k
RECURSIVE PanelsOf(_)
PanelsOf(k) ==
    IF k = 0 THEN {{}}
    ELSE {p \cup rows : p \in PanelsOf(k - 1), rows \in EntityRows(k)}

Panels == PanelsOf(MaxEntities) \cup {ScenarioPanel}

GroupCols == {None, Some("grupo_homogeneo")}
GhSelectors == {None, Some("A")}
StageSelectors == {None, Some(30)}

InitIdle ==
    /\ pc = "idle"
    /\ raw = <<>>
    /\ mat = <<>>
    /\ row_sums = <<>>
    /\ non_empty = {}
    /\ idx = 0
    /\ final = <<>>
    /\ log = <<>>

\* estimators built with the constructor's default alpha and rebin_window,
\* and a min_count that the rows of these panels reach
Init ==
    /\ InitEstimator
    /\ alpha = DefaultAlpha
    /\ rebin_window = DefaultRebinWindow
    /\ min_count = 1
    /\ InitCalls
    /\ InitIdle

Next ==
    \/ \E p \in Panels, gc \in GroupCols : Fit(p, gc)
    \/ \E gh \in GhSelectors, stage \in StageSelectors : GetMatrix(gh, stage)

Spec == Init /\ [][Next]_vars

(***************************************************************************)
(* Properties of the estimator (checked under Spec).                       *)
(***************************************************************************)
\* the spec's locate: value v lies in the interval of bucket i
Locates(v, i) == buckets[i] <= v /\ (i = n - 1 \/ v < buckets[i + 1])

\* the (entity, period T) combinations of the last panel with an observation
\* at T locating to i and one at T + one month locating to j
Transitions(i, j) ==
    {x \in panel \X panel :
        /\ x[1].id = x[2].id
        /\ x[2].time = AddMonth(x[1].time)
        /\ Locates(x[1].bucket, i)
        /\ Locates(x[2].bucket, j)}

ScenarioCounts ==
    [i \in 0 .. 2 |-> [j \in 0 .. 2 |->
        IF <<i, j>> \in {<<0, 0>>, <<0, 1>>, <<1, 1>>, <<0, 2>>} THEN 1 ELSE 0]]

\* C1: after fit, cell (i,j) of the raw global count matrix is the number of
\* (entity, period T) combinations with an observation at T locating to i
\* (origin, row) and one at exactly T + one period locating to j
\* (destination, column); for the scenario panel and buckets [0,30,60] the
\* counts are {(0,0):1, (0,30):1, (30,30):1, (0,60):1}.  Stated for the
\* panels whose values are all >= b0 (C6 is about the others).
C1_CountsOriginToDestination ==
    (nfits > 0 /\ \A x \in panel : x.bucket >= buckets[0]) =>
        /\ \A i, j \in Range0(n) :
              counts_global[1][i][j] = Cardinality(Transitions(i, j))
        /\ (panel = ScenarioPanel /\ buckets = ZeroBased(<<0, 30, 60>>))
              => counts_global[1] = ScenarioCounts

\* what a fresh estimator of the same configuration stores after fitting the
\* last panel
FreshByGh == FitByGh(<<>>, Merged(panel), group_col)
FreshByStage == FitByStage(<<>>, Merged(panel))

\* C3: after any sequence of fits the stored matrices and keys are those of
\* a fresh estimator fitted on the last panel only, and a get_matrix with a
\* group or stage selector not observed in the last fit ends in KeyError.
C3_FitReplacesPriorFit ==
    nfits > 0 =>
        /\ mat_global = Some(CleanMatrix(CountMatrix(Merged(panel))).final)
        /\ mat_by_gh = FreshByGh
        /\ mat_by_stage = FreshByStage
        /\ (result.call = "get_matrix" /\ result.gh # None
                /\ result.gh[1] \notin DOMAIN FreshByGh)
              => result.outcome.kind = "KeyError"
        /\ (result.call = "get_matrix" /\ result.gh = None /\ result.stage # None
                /\ result.stage[1] \notin DOMAIN FreshByStage)
              => result.outcome.kind = "KeyError"

\* the labels of the buckets whose row total in the count matrix c is
\* >= min_count, in order
KeptLabels(c) == KeptBuckets([i \in DOMAIN c |-> RowSum(c, i) >= min_count])

\* the cleaned matrix m keeps exactly the kept buckets of its count matrix c
\* and the label list read after fit names them
DropKeeps(m, c) ==
    /\ m = Laplace(Ix(c, [i \in DOMAIN c |-> RowSum(c, i) >= min_count]))
    /\ Cardinality(DOMAIN cleaned_buckets) = Cardinality(DOMAIN m)
    /\ cleaned_buckets = KeptLabels(c)

\* C4: under Drop every matrix stored by fit (global, each group, each stage)
\* keeps exactly the buckets whose row total in its own raw count matrix is
\* >= min_count, and cleaned_buckets as read after fit has the matrix's
\* dimension and names those buckets in order.
C4_DropLabelsMatchEveryMatrix ==
    (drop_empty /\ nfits > 0) =>
        /\ DropKeeps(mat_global[1], counts_global[1])
        /\ \A g \in DOMAIN FreshByGh :
              g \in DOMAIN mat_by_gh
              /\ DropKeeps(mat_by_gh[g], CountMatrix(GroupRows(Merged(panel), g)))
        /\ \A s \in DOMAIN FreshByStage :
              s \in DOMAIN mat_by_stage
              /\ DropKeeps(mat_by_stage[s], CountMatrix(StageRows(Merged(panel), s)))

\* C6: a value >= b0 is counted in the unique bucket i with
\* b_i <= value < b_(i+1) (or i = n-1); a pair with an origin or destination
\* value < b0 increments no cell of the count matrix.
C6_LocateOrOutOfRange ==
    nfits > 0 =>
        \A i, j \in Range0(n) :
            counts_global[1][i][j] =
                Cardinality({r \in Merged(panel) :
                                Locates(r.bucket_t, i) /\ Locates(r.bucket_t1, j)})

\* C7: on an estimator on which no fit has completed every get_matrix query
\* (global, by group, by stage) ends in the not-fitted error.
C7_NotFittedBeforeFit ==
    (nfits = 0 /\ result.call = "get_matrix") => result.outcome.kind = "RuntimeError"

\* C8: get_matrix with both a group and a stage selector ends in the
\* invalid-selector error, whatever the estimator's state.
C8_BothSelectorsRejected ==
    (result.call = "get_matrix" /\ result.gh # None /\ result.stage # None)
        => result.outcome.kind = "ValueError"

\* the labels of the rows of the global cleaned matrix
GlobalLabels == IF drop_empty THEN KeptLabels(counts_global[1]) ELSE buckets

\* C9: the matrix of every stage key s of the last fit has the dimension of
\* the global cleaned matrix, its row for the bucket of s is the global
\* matrix's row for that bucket, and its other rows are zero.
C9_StageIsGlobalRow ==
    nfits > 0 =>
        \A s \in DOMAIN FreshByStage :
            LET sm == mat_by_stage[s]
                g == mat_global[1]
            IN /\ DOMAIN sm = DOMAIN g
               /\ \A r \in DOMAIN g :
                     IF GlobalLabels[r] = buckets[Cell(s)]
                     THEN sm[r] = g[r]
                     ELSE \A c \in DOMAIN sm[r] : sm[r][c] = RatZero

(***************************************************************************)
(* Properties of one cleaning pass (checked under SpecClean).              *)
(***************************************************************************)
RatRowSum(row) == RatSumOver(row, DOMAIN row)

\* the index of a bucket label in self.buckets
IndexOf(label) == CHOOSE k \in DOMAIN buckets : buckets[k] = label

\* C2 as stated: every row of the cleaned matrix whose bucket had a raw row
\* total > 0 (and, under Drop, is among the kept buckets) sums to exactly 1.
C2_RawMassRowsSumToOne ==
    pc = "done" =>
        \A k \in Range0(n) :
            RowSum(raw, k) > 0 =>
                \A a \in DOMAIN cleaned_buckets :
                    cleaned_buckets[a] = buckets[k] => RatRowSum(final[a]) = RatOne

\* C2 as amended: every row of the cleaned matrix whose total after the
\* strategy step (after the Rebin merges or the Drop reduction, before
\* smoothing) is > 0 sums to exactly 1; with no strategy these are the rows
\* whose raw total is > 0.
C2_RowsWithMassSumToOne ==
    pc = "done" =>
        /\ \A r \in DOMAIN final : RowSum(mat, r) > 0 => RatRowSum(final[r]) = RatOne
        /\ (~auto_rebin /\ ~drop_empty) => mat = raw

\* a smoothed pass (alpha > 0) that merged a row away and left a row with mass
C2_Witness ==
    /\ pc = "done"
    /\ alpha > 0
    /\ auto_rebin
    /\ Len(log) > 0
    /\ \E r \in DOMAIN final : RowSum(mat, r) > 1 /\ RatRowSum(final[r]) = RatOne

\* C5: under Rebin the sum of all cells equals the sum of the raw count
\* matrix after every merge of the pass, and so when the pass ends.
C5_RebinConservesMass ==
    (auto_rebin /\ pc \in {"rebin", "smooth", "done"}) => Total(mat) = Total(raw)

\* a merge of row/column i into j whose diagonal cell (i,i) and cross cells
\* (i,j) and (j,i) were all non-zero
C5_Witness ==
    /\ auto_rebin
    /\ pc = "rebin"
    /\ Len(log) = 1
    /\ LET i == IndexOf(log[1].bucket)
           j == IndexOf(log[1].into)
       IN raw[i][i] > 0 /\ raw[i][j] > 0 /\ raw[j][i] > 0

\* the rows whose current total is >= min_count
Eligible == {x \in Range0(n) : RowSum(mat, x) >= min_count}

\* j is a donor the rule allows for row i
AllowedDonor(j, i) ==
    LET near == {x \in Eligible : Dist(x, i) <= rebin_window}
    IN /\ j \in Eligible
       /\ IF near # {}
          THEN j \in near /\ \A x \in near : Dist(j, i) <= Dist(x, i)
          ELSE \A x \in Eligible : Dist(j, i) <= Dist(x, i)

\* no bucket was both merged away and used as a donor, and the merged
\* buckets are in ascending order
LogConsistent(l) ==
    /\ \A a, b \in 1 .. Len(l) : l[a].bucket # l[b].into
    /\ \A a, b \in 1 .. Len(l) : a < b => l[a].bucket < l[b].bucket

\* C10: each iteration of the rebin loop takes the next row in ascending
\* order; a row whose current total is < min_count is merged into an allowed
\* donor (within the window if any eligible row is, of minimal label distance),
\* which receives its total, when some row has total >= min_count, and
\* otherwise matrix and log are left unchanged; no merged row is a donor and
\* no donor is merged away.
C10_DonorSelection ==
    [][(pc = "rebin" /\ idx < n) =>
          /\ idx' = idx + 1
          /\ IF RowSum(mat, idx) < min_count /\ Eligible # {}
             THEN /\ Len(log') = Len(log) + 1
                  /\ log'[Len(log')].bucket = buckets[idx]
                  /\ AllowedDonor(IndexOf(log'[Len(log')].into), idx)
                  /\ RowSum(mat', IndexOf(log'[Len(log')].into)) =
                       RowSum(mat, IndexOf(log'[Len(log')].into)) + RowSum(mat, idx)
                  /\ RowSum(mat', idx) = 0
                  /\ \A r \in Range0(n) : mat'[r][idx] = 0
             ELSE mat' = mat /\ log' = log
          /\ LogConsistent(log')]_vars

\* a pass that merged one row into the nearer of two eligible rows, both
\* outside the window
C10_Witness ==
    /\ pc = "done"
    /\ auto_rebin
    /\ Len(log) = 1
    /\ Cardinality(Eligible) = 2
    /\ \A x \in Eligible : Dist(x, IndexOf(log[1].bucket)) > rebin_window
    /\ \E x \in Eligible : Dist(x, IndexOf(log[1].bucket)) > Dist(IndexOf(log[1].into), IndexOf(log[1].bucket))

====
